---- MODULE Spec2Model ----
(***************************************************************************)
(* Model of the Socket.IO chat handlers of Task_2_chat_app/app.py: the     *)
(* module-level presence dictionary active_users, the Socket.IO room       *)
(* subscriptions changed by join_room/leave_room, the Message table and    *)
(* the events each handler emits.                                          *)
(***************************************************************************)
EXTENDS Integers, Sequences, FiniteSets, TLC

\* ------------------------------------------------------------------ bounds
NumConns == 2
NumRooms == 2
MaxMessages == 1

Conns == 1..NumConns
RoomNums == 1..NumRooms
\* the user logged in on the browser that opens connection sid
UserNames == <<"Alice", "Bob", "Carol", "Dave">>
NoName == "-"
\* what session['username'] of a new connection can be: the user's name after
\* login(), absent before
SessionNames(sid) == {UserNames[sid], NoName}

\* data['room_id'] arrives either as a JSON number or as a JSON string
RoomIds == {<<"int", n>> : n \in RoomNums} \cup {<<"str", n>> : n \in RoomNums}
ContentTypes == {"text", "image"}

VARIABLES
    session,       \* sid -> session['username'] of the connection, NoName when the key is absent
    connected,     \* sid -> the transport connection is open
    active_users,  \* ordered dict room_id -> ordered dict sid -> username
    sio_rooms,     \* Socket.IO room -> set of subscribed sids (join_room / leave_room)
    messages,      \* committed rows of the Message table, in insert order
    emitted,       \* events emitted by the handler call that ran last, in emission order
    last,          \* the handler call that ran last: event, sid, room_id, how it ended
    presence,      \* history: room number -> connections joined and not departed since, oldest first
    pc,            \* sid -> where the handler thread serving the connection stands
    local          \* sid -> the local variables of that handler thread

vars == <<session, connected, active_users, sio_rooms, messages, emitted, last, presence,
          pc, local>>

\* ------------------------------------------------- Python dict as a sequence
\* A dict keeps its keys in insertion order; assigning to an existing key keeps
\* the key's position, deleting and re-inserting a key moves it to the end.
DictHas(d, k) == \E i \in 1..Len(d) : d[i][1] = k
DictIdx(d, k) == CHOOSE i \in 1..Len(d) : d[i][1] = k
DictGet(d, k) == d[DictIdx(d, k)][2]
DictSetMoveToEnd(d, k, v) == Append(SelectSeq(d, LAMBDA p : p[1] # k), <<k, v>>)
DictSet(d, k, v) ==
    IF DictHas(d, k) THEN [d EXCEPT ![DictIdx(d, k)] = <<k, v>>]
                     ELSE Append(d, <<k, v>>)
DictDel(d, k) == SelectSeq(d, LAMBDA p : p[1] # k)
DictKeys(d) == [i \in 1..Len(d) |-> d[i][1]]
DictValues(d) == [i \in 1..Len(d) |-> d[i][2]]
DictGetOr(d, k, dflt) == IF DictHas(d, k) THEN DictGet(d, k) ELSE dflt

\* str(data['room_id']): the number 1 and the string "1" both give "1"
Str(rid) == <<"str", rid[2]>>

\* ------------------------------------------------------------------ events
\* the sids an emit addressed to `to` reaches: the subscribers of a room, or the
\* one connection when `to` is a sid (every connection is alone in its own room)
Participants(rooms, to) == IF to[1] = "sid" THEN {to[2]} ELSE rooms[to]

Notification(rooms, to, username, what, type) ==
    [event |-> "notification", to |-> to, rcpt |-> Participants(rooms, to),
     username |-> username, what |-> what, type |-> type,
     users |-> <<>>, count |-> 0, id |-> 0]

UserListUpdate(rooms, to, users) ==
    [event |-> "user_list_update", to |-> to, rcpt |-> Participants(rooms, to),
     username |-> NoName, what |-> "", type |-> "",
     users |-> users, count |-> Len(users), id |-> 0]

NewMessage(rooms, to, username, content_type, id) ==
    [event |-> "new_message", to |-> to, rcpt |-> Participants(rooms, to),
     username |-> username, what |-> content_type, type |-> "",
     users |-> <<>>, count |-> 0, id |-> id]

ErrorEvent(sid) ==
    [event |-> "error", to |-> <<"sid", sid>>, rcpt |-> {sid},
     username |-> NoName, what |-> "Failed to process image", type |-> "",
     users |-> <<>>, count |-> 0, id |-> 0]

Call(op, sid, room_id, outcome) ==
    [op |-> op, sid |-> sid, room_id |-> room_id, outcome |-> outcome]

NoRoom == <<"none", 0>>

\* what a running handler holds: data['room_id'], room_id, users_in_room and
\* the session object of its request context, which outlives a disconnect
Locals(rid, room_id, users_in_room, username) ==
    [rid |-> rid, room_id |-> room_id, users_in_room |-> users_in_room,
     username |-> username]
NoLocals == Locals(NoRoom, NoRoom, <<>>, NoName)

\* ----------------------------------------------------------- history helpers
SeqRemove(s, x) == SelectSeq(s, LAMBDA y : y # x)
SeqHas(s, x) == \E i \in 1..Len(s) : s[i] = x

\* -------------------------------------------------------------------- Init
Init ==
    /\ session = [c \in Conns |-> NoName]
    /\ connected = [c \in Conns |-> FALSE]
    /\ active_users = <<>>
    /\ sio_rooms = [k \in RoomIds |-> {}]
    /\ messages = <<>>
    /\ emitted = <<>>
    /\ last = Call("none", 0, NoRoom, "ok")
    /\ presence = [n \in RoomNums |-> <<>>]
    /\ pc = [c \in Conns |-> "idle"]
    /\ local = [c \in Conns |-> NoLocals]

\* a client opens a socket; Flask-SocketIO copies the HTTP session, which holds
\* 'username' and 'user_id' after login() and neither before
handle_connect(sid, name) ==
    /\ ~connected[sid]
    /\ connected' = [connected EXCEPT ![sid] = TRUE]
    /\ session' = [session EXCEPT ![sid] = name]
    /\ emitted' = <<>>
    /\ last' = Call("connect", sid, NoRoom, "ok")
    /\ UNCHANGED <<active_users, sio_rooms, messages, presence>>

\* ------------------------------------------------------ presence registry
\* lines 146-148: create the room's dict on first use, then bind sid -> username
RegistryJoinDup(au, room_id, sid, username) ==
    LET au1 == IF DictHas(au, room_id) THEN au ELSE DictSet(au, room_id, <<>>)
    IN  DictSet(au1, room_id, Append(DictGet(au1, room_id), <<sid, username>>))
RegistryJoin(au, room_id, sid, username) ==
    LET au1 == IF DictHas(au, room_id) THEN au ELSE DictSet(au, room_id, <<>>)
    IN  DictSet(au1, room_id, DictSet(DictGet(au1, room_id), sid, username))

\* lines 172-173: delete the sid's entry when the room and the entry exist
RegistryLeaveKeep(au, room_id, sid) == au
RegistryLeave(au, room_id, sid) ==
    IF DictHas(au, room_id) /\ DictHas(DictGet(au, room_id), sid)
    THEN DictSet(au, room_id, DictDel(DictGet(au, room_id), sid))
    ELSE au

\* line 151 / 176: list(active_users.get(room_id, {}).values())
UsersInRoom(au, room_id) == DictValues(DictGetOr(au, room_id, <<>>))

\* lines 120-137: the loop over list(active_users.keys()); for every room that
\* holds the sid, delete the entry and emit the notification and the new list
RECURSIVE DisconnectSweep(_, _, _, _, _)
DisconnectSweepFirstOnly(keys, au, out, rooms, sid) ==
    IF keys = <<>> THEN [au |-> au, out |-> out]
    ELSE LET room_id == Head(keys) IN
         IF DictHas(DictGet(au, room_id), sid)
         THEN LET username == DictGet(DictGet(au, room_id), sid)
                  au1 == DictSet(au, room_id, DictDel(DictGet(au, room_id), sid))
                  users_in_room == DictValues(DictGet(au1, room_id))
              IN  [au |-> au1,
                   out |-> out \o <<Notification(rooms, room_id, username, "disconnected", "leave"),
                                    UserListUpdate(rooms, room_id, users_in_room)>>]
         ELSE DisconnectSweep(Tail(keys), au, out, rooms, sid)
DisconnectSweep(keys, au, out, rooms, sid) ==
    IF keys = <<>> THEN [au |-> au, out |-> out]
    ELSE LET room_id == Head(keys) IN
         IF DictHas(DictGet(au, room_id), sid)
         THEN LET username == DictGet(DictGet(au, room_id), sid)
                  au1 == DictSet(au, room_id, DictDel(DictGet(au, room_id), sid))
                  users_in_room == DictValues(DictGet(au1, room_id))
              IN  DisconnectSweep(Tail(keys), au1,
                      out \o <<Notification(rooms, room_id, username, "disconnected", "leave"),
                               UserListUpdate(rooms, room_id, users_in_room)>>,
                      rooms, sid)
         ELSE DisconnectSweep(Tail(keys), au, out, rooms, sid)

\* ---------------------------------------------------------------- handlers
\* @socketio.on('disconnect'); when the handler returns the server drops the
\* sid from every Socket.IO room and the session copy is discarded. The
\* transport of the sid is already closed while the handler runs, so its emits
\* reach the other subscribers only.
handle_disconnect(sid) ==
    /\ connected[sid]
    /\ LET rooms1 == [k \in RoomIds |-> sio_rooms[k] \ {sid}]
           swept == IF session[sid] # NoName
                    THEN DisconnectSweep(DictKeys(active_users), active_users, <<>>, rooms1, sid)
                    ELSE [au |-> active_users, out |-> <<>>]
       IN  /\ active_users' = swept.au
           /\ emitted' = swept.out
           /\ sio_rooms' = rooms1
    /\ connected' = [connected EXCEPT ![sid] = FALSE]
    /\ session' = [session EXCEPT ![sid] = NoName]
    /\ last' = Call("disconnect", sid, NoRoom, "ok")
    /\ presence' = [n \in RoomNums |-> SeqRemove(presence[n], sid)]
    /\ UNCHANGED messages

\* @socketio.on('join'); session['username'] at line 143 raises KeyError for a
\* connection without a login, after join_room() has already subscribed it
handle_join(sid, rid) ==
    /\ connected[sid]
    /\ LET room_id == Str(rid)
           rooms1 == [sio_rooms EXCEPT ![room_id] = @ \cup {sid}]
       IN  /\ sio_rooms' = rooms1
           /\ IF session[sid] = NoName
              THEN /\ last' = Call("join", sid, rid, "KeyError")
                   /\ emitted' = <<>>
                   /\ UNCHANGED <<active_users, presence>>
              ELSE LET au1 == RegistryJoin(active_users, room_id, sid, session[sid])
                       users_in_room == UsersInRoom(au1, room_id)
                   IN  /\ active_users' = au1
                       /\ emitted' = <<Notification(rooms1, room_id, session[sid], "joined", "join"),
                                       UserListUpdate(rooms1, room_id, users_in_room)>>
                       /\ last' = Call("join", sid, rid, "ok")
                       /\ presence' = [presence EXCEPT ![rid[2]] =
                                          IF SeqHas(@, sid) THEN @ ELSE Append(@, sid)]
    /\ UNCHANGED <<session, connected, messages>>

\* @socketio.on('leave'); line 169 raises KeyError without a login, after leave_room()
handle_leave(sid, rid) ==
    /\ connected[sid]
    /\ LET room_id == Str(rid)
           rooms1 == [sio_rooms EXCEPT ![room_id] = @ \ {sid}]
       IN  /\ sio_rooms' = rooms1
           /\ IF session[sid] = NoName
              THEN /\ last' = Call("leave", sid, rid, "KeyError")
                   /\ emitted' = <<>>
                   /\ UNCHANGED active_users
              ELSE LET au1 == RegistryLeave(active_users, room_id, sid)
                       users_in_room == UsersInRoom(au1, room_id)
                   IN  /\ active_users' = au1
                       /\ emitted' = <<Notification(rooms1, room_id, session[sid], "left", "leave"),
                                       UserListUpdate(rooms1, room_id, users_in_room)>>
                       /\ last' = Call("leave", sid, rid, "ok")
    /\ presence' = [presence EXCEPT ![rid[2]] = SeqRemove(@, sid)]
    /\ UNCHANGED <<session, connected, messages>>

\* lines 197-204 / 251-258: db.session.add(message); db.session.commit();
\* Message.room_id is an Integer column, the row holds the room's number
MessageRow(id, room_id, username, content_type) ==
    [id |-> id, room_id |-> room_id[2], username |-> username, content_type |-> content_type]

\* lines 207-225 / 261-274: new_message, then the notification, both to room=room_id
MessageEventsSwapped(rooms, room_id, username, content_type, id) ==
    <<Notification(rooms, room_id, username,
                   IF content_type = "text" THEN "text" ELSE "image", "message"),
      NewMessage(rooms, room_id, username, content_type, id)>>
MessageEvents(rooms, room_id, username, content_type, id) ==
    <<NewMessage(rooms, room_id, username, content_type, id),
      Notification(rooms, room_id, username,
                   IF content_type = "text" THEN "text" ELSE "image", "message")>>

\* what handle_message does when the commit at line 204 raises: the exception
\* leaves the handler, nothing after line 204 runs
MessageCommitFailedBroadcast(sid, room_id, content_type) ==
    MessageEvents(sio_rooms, room_id, session[sid], content_type, Len(messages) + 1)
MessageCommitFailed(sid, room_id, content_type) == <<>>

\* what handle_image does on any exception raised inside the try block
\* (lines 276-278): one 'error' event to the sender
ImageFailedBroadcast(sid, room_id) ==
    MessageEvents(sio_rooms, room_id, session[sid], "image", Len(messages) + 1)
ImageFailed(sid, room_id) == <<ErrorEvent(sid)>>

\* @socketio.on('message'); room_id is data['room_id'] as received, session['user_id']
\* at line 200 raises KeyError without a login; `commits` is whether line 204 succeeds
handle_message(sid, rid, content_type, commits) ==
    /\ connected[sid]
    /\ commits => Len(messages) < MaxMessages
    /\ LET room_id == rid IN
       IF session[sid] = NoName
       THEN /\ last' = Call("message", sid, rid, "KeyError")
            /\ emitted' = <<>>
            /\ UNCHANGED messages
       ELSE IF ~commits
       THEN /\ last' = Call("message", sid, rid, "PersistenceError")
            /\ emitted' = MessageCommitFailed(sid, room_id, content_type)
            /\ UNCHANGED messages
       ELSE LET id == Len(messages) + 1 IN
            /\ messages' = Append(messages, MessageRow(id, room_id, session[sid], content_type))
            /\ emitted' = MessageEvents(sio_rooms, room_id, session[sid], content_type, id)
            /\ last' = Call("message", sid, rid, "ok")
    /\ UNCHANGED <<session, connected, active_users, sio_rooms, presence>>

\* @socketio.on('image'); `decodes` is whether lines 235-248 succeed, `commits`
\* whether line 258 succeeds; every failure inside the try ends in the except
handle_image(sid, rid, decodes, commits) ==
    /\ connected[sid]
    /\ (decodes /\ commits) => Len(messages) < MaxMessages
    /\ LET room_id == rid IN
       IF ~decodes
       THEN /\ last' = Call("image", sid, rid, "DecodeError")
            /\ emitted' = ImageFailed(sid, room_id)
            /\ UNCHANGED messages
       ELSE IF session[sid] = NoName
       THEN /\ last' = Call("image", sid, rid, "KeyError")
            /\ emitted' = ImageFailed(sid, room_id)
            /\ UNCHANGED messages
       ELSE IF ~commits
       THEN /\ last' = Call("image", sid, rid, "PersistenceError")
            /\ emitted' = ImageFailed(sid, room_id)
            /\ UNCHANGED messages
       ELSE LET id == Len(messages) + 1 IN
            /\ messages' = Append(messages, MessageRow(id, room_id, session[sid], "image"))
            /\ emitted' = MessageEvents(sio_rooms, room_id, session[sid], "image", id)
            /\ last' = Call("image", sid, rid, "ok")
    /\ UNCHANGED <<session, connected, active_users, sio_rooms, presence>>

\* ------------------------------------------------------------ specification
\* events handled one at a time, each handler running to completion
Connect == /\ \E sid \in Conns : \E name \in SessionNames(sid) : handle_connect(sid, name)
           /\ UNCHANGED <<pc, local>>
Disconnect == /\ \E sid \in Conns : handle_disconnect(sid)
              /\ UNCHANGED <<pc, local>>
Join == /\ \E sid \in Conns, rid \in RoomIds : handle_join(sid, rid)
        /\ UNCHANGED <<pc, local>>
Leave == /\ \E sid \in Conns, rid \in RoomIds : handle_leave(sid, rid)
         /\ UNCHANGED <<pc, local>>
SendMessage == /\ \E sid \in Conns, rid \in RoomIds, ct \in ContentTypes, commits \in BOOLEAN :
                      handle_message(sid, rid, ct, commits)
               /\ UNCHANGED <<pc, local>>
SendImage == /\ \E sid \in Conns, rid \in RoomIds, decodes \in BOOLEAN, commits \in BOOLEAN :
                    handle_image(sid, rid, decodes, commits)
             /\ UNCHANGED <<pc, local>>

Next == Connect \/ Disconnect \/ Join \/ Leave \/ SendMessage \/ SendImage

Spec == Init /\ [][Next]_vars

\* ------------------------------------------------- a room emit that raises
\* handle_disconnect has no try/except: when an emit of the loop raises, the
\* loop and the handler end there. `bad` is the room whose emit at line 129
\* raises (NoRoom: none does); its entry was deleted at line 123 already.
RECURSIVE SweepUntilRaise(_, _, _, _, _, _)
SweepUntilRaise(keys, au, out, rooms, sid, bad) ==
    IF keys = <<>> THEN [au |-> au, out |-> out, raised |-> FALSE]
    ELSE LET room_id == Head(keys) IN
         IF DictHas(DictGet(au, room_id), sid)
         THEN LET username == DictGet(DictGet(au, room_id), sid)
                  au1 == DictSet(au, room_id, DictDel(DictGet(au, room_id), sid))
                  users_in_room == DictValues(DictGet(au1, room_id))
              IN  IF room_id = bad
                  THEN [au |-> au1, out |-> out, raised |-> TRUE]
                  ELSE SweepUntilRaise(Tail(keys), au1,
                           out \o <<Notification(rooms, room_id, username, "disconnected", "leave"),
                                    UserListUpdate(rooms, room_id, users_in_room)>>,
                           rooms, sid, bad)
         ELSE SweepUntilRaise(Tail(keys), au, out, rooms, sid, bad)

handle_disconnect_raising(sid, bad) ==
    /\ connected[sid]
    /\ LET rooms1 == [k \in RoomIds |-> sio_rooms[k] \ {sid}]
           swept == IF session[sid] # NoName
                    THEN SweepUntilRaise(DictKeys(active_users), active_users, <<>>, rooms1,
                                         sid, bad)
                    ELSE [au |-> active_users, out |-> <<>>, raised |-> FALSE]
       IN  /\ active_users' = swept.au
           /\ emitted' = swept.out
           /\ sio_rooms' = rooms1
           /\ last' = Call("disconnect", sid, bad, IF swept.raised THEN "EmitError" ELSE "ok")
    /\ connected' = [connected EXCEPT ![sid] = FALSE]
    /\ session' = [session EXCEPT ![sid] = NoName]
    /\ presence' = [n \in RoomNums |-> SeqRemove(presence[n], sid)]
    /\ UNCHANGED messages

DisconnectRaising ==
    /\ \E sid \in Conns, bad \in {Str(k) : k \in RoomIds} \cup {NoRoom} :
           handle_disconnect_raising(sid, bad)
    /\ UNCHANGED <<pc, local>>

NextFaults == Connect \/ Join \/ Leave \/ DisconnectRaising

SpecFaults == Init /\ [][NextFaults]_vars

\* ------------------------------------------------ handlers run by threads
\* The server starts every event handler in a thread of its own and app.py
\* takes no lock, so handlers of different connections interleave between
\* statements. handle_join, statement by statement:

\* lines 141-143: room_id, join_room(room_id), the print that reads session['username']
JoinBegin(sid, rid) ==
    /\ pc[sid] = "idle"
    /\ connected[sid]
    /\ LET room_id == Str(rid) IN
       /\ sio_rooms' = [sio_rooms EXCEPT ![room_id] = @ \cup {sid}]
       /\ IF session[sid] = NoName
          THEN /\ last' = Call("join", sid, rid, "KeyError")
               /\ UNCHANGED <<pc, local>>
          ELSE /\ pc' = [pc EXCEPT ![sid] = "join_check"]
               /\ local' = [local EXCEPT ![sid] = Locals(rid, room_id, <<>>, session[sid])]
               /\ UNCHANGED last
    /\ emitted' = <<>>
    /\ UNCHANGED <<session, connected, active_users, messages, presence>>

\* line 146: if room_id not in active_users
JoinCheck(sid) ==
    /\ pc[sid] = "join_check"
    /\ pc' = [pc EXCEPT ![sid] = IF DictHas(active_users, local[sid].room_id)
                                 THEN "join_store" ELSE "join_create"]
    /\ UNCHANGED <<session, connected, active_users, sio_rooms, messages, emitted, last,
                   presence, local>>

\* line 147: active_users[room_id] = {}
JoinCreate(sid) ==
    /\ pc[sid] = "join_create"
    /\ active_users' = DictSet(active_users, local[sid].room_id, <<>>)
    /\ pc' = [pc EXCEPT ![sid] = "join_store"]
    /\ UNCHANGED <<session, connected, sio_rooms, messages, emitted, last, presence, local>>

\* line 148: active_users[room_id][request.sid] = session['username'], the
\* lookup of the room's dict and the store into it taken as one step
JoinStore(sid) ==
    /\ pc[sid] = "join_store"
    /\ active_users' = DictSet(active_users, local[sid].room_id,
                               DictSet(DictGet(active_users, local[sid].room_id),
                                       sid, local[sid].username))
    /\ pc' = [pc EXCEPT ![sid] = "join_list"]
    /\ UNCHANGED <<session, connected, sio_rooms, messages, emitted, last, presence, local>>

\* line 151: users_in_room = list(active_users[room_id].values())
JoinList(sid) ==
    /\ pc[sid] = "join_list"
    /\ local' = [local EXCEPT ![sid].users_in_room = UsersInRoom(active_users, local[sid].room_id)]
    /\ pc' = [pc EXCEPT ![sid] = "join_notify"]
    /\ UNCHANGED <<session, connected, active_users, sio_rooms, messages, emitted, last,
                   presence>>

\* lines 154-157: emit('notification', ..., room=room_id)
JoinNotify(sid) ==
    /\ pc[sid] = "join_notify"
    /\ emitted' = <<Notification(sio_rooms, local[sid].room_id, local[sid].username,
                              "joined", "join")>>
    /\ pc' = [pc EXCEPT ![sid] = "join_update"]
    /\ UNCHANGED <<session, connected, active_users, sio_rooms, messages, last, presence, local>>

\* lines 160-163: emit('user_list_update', ..., room=room_id); the handler returns
JoinUpdate(sid) ==
    /\ pc[sid] = "join_update"
    /\ emitted' = <<UserListUpdate(sio_rooms, local[sid].room_id, local[sid].users_in_room)>>
    /\ last' = Call("join", sid, local[sid].rid, "ok")
    /\ presence' = [presence EXCEPT ![local[sid].rid[2]] =
                       IF SeqHas(@, sid) THEN @ ELSE Append(@, sid)]
    /\ pc' = [pc EXCEPT ![sid] = "idle"]
    /\ local' = [local EXCEPT ![sid] = NoLocals]
    /\ UNCHANGED <<session, connected, active_users, sio_rooms, messages>>

ThreadConnect == /\ \E sid \in Conns : \E name \in SessionNames(sid) :
                        pc[sid] = "idle" /\ handle_connect(sid, name)
                 /\ UNCHANGED <<pc, local>>
\* a connection's events come one at a time: its disconnect runs when no
\* handler of the connection is in flight
ThreadDisconnect == /\ \E sid \in Conns : pc[sid] = "idle" /\ handle_disconnect(sid)
                    /\ UNCHANGED <<pc, local>>
ThreadJoinBegin == \E sid \in Conns, rid \in RoomIds : JoinBegin(sid, rid)
ThreadJoinCheck == \E sid \in Conns : JoinCheck(sid)
ThreadJoinCreate == \E sid \in Conns : JoinCreate(sid)
ThreadJoinStore == \E sid \in Conns : JoinStore(sid)
ThreadJoinList == \E sid \in Conns : JoinList(sid)
ThreadJoinNotify == \E sid \in Conns : JoinNotify(sid)
ThreadJoinUpdate == \E sid \in Conns : JoinUpdate(sid)

NextThreads ==
    \/ ThreadConnect \/ ThreadDisconnect
    \/ ThreadJoinBegin \/ ThreadJoinCheck \/ ThreadJoinCreate \/ ThreadJoinStore
    \/ ThreadJoinList \/ ThreadJoinNotify \/ ThreadJoinUpdate

SpecThreads == Init /\ [][NextThreads]_vars

\* The transport closes while a handler of the same connection is still running:
\* the server runs handle_disconnect at once, in the connection's own thread,
\* and the handler that was in flight goes on afterwards.
ThreadCancel == /\ \E sid \in Conns : pc[sid] # "idle" /\ handle_disconnect(sid)
                /\ UNCHANGED <<pc, local>>

\* a sid is unique for the life of the process: a new connection never comes
\* with a sid the registry still names
FreshConnect == /\ \E sid \in Conns : \E name \in SessionNames(sid) :
                       /\ pc[sid] = "idle"
                       /\ \A i \in 1..Len(active_users) : ~DictHas(active_users[i][2], sid)
                       /\ handle_connect(sid, name)
                /\ UNCHANGED <<pc, local>>
\* join events whose room_id is already a string
CancelJoinBegin == \E sid \in Conns, n \in RoomNums : JoinBegin(sid, <<"str", n>>)

NextCancel ==
    \/ FreshConnect \/ ThreadCancel \/ ThreadDisconnect
    \/ CancelJoinBegin \/ ThreadJoinCheck \/ ThreadJoinCreate \/ ThreadJoinStore
    \/ ThreadJoinList \/ ThreadJoinNotify \/ ThreadJoinUpdate

SpecCancel == Init /\ [][NextCancel]_vars

\* ------------------------------------------------------------------ views
\* the registry's entries for room number n, under whatever key holds them
\* the ids that have a row in the Room table; the last id a client may send
\* stands for an id no row has
RoomTable == {n \in RoomNums : n < NumRooms}
Subscribers(rooms, n) == rooms[<<"str", n>>] \cup rooms[<<"int", n>>]
EntriesIn(au, n) == DictGetOr(au, <<"str", n>>, <<>>) \o DictGetOr(au, <<"int", n>>, <<>>)
SidsIn(au, n) == {EntriesIn(au, n)[i][1] : i \in 1..Len(EntriesIn(au, n))}
SidSeq(au, n) == [i \in 1..Len(EntriesIn(au, n)) |-> EntriesIn(au, n)[i][1]]
HasEntry(au, n, sid) == sid \in SidsIn(au, n)
SeqSet(s) == {s[i] : i \in 1..Len(s)}
EventsWhere(out, P(_)) == {i \in 1..Len(out) : P(out[i])}
IsRoomEvent(e) == e.to[1] # "sid"
AllIdle == \A c \in Conns : pc[c] = "idle"

\* ----------------------------------------------------------------- claims
\* C1: for every room, after any sequence of join, leave and disconnect events
\* handled one at a time, the number of registry entries of the room, and the
\* count of every presence update just sent to it, equal the number of distinct
\* connections that joined the room and have not left or disconnected since;
\* no connection has two entries and no departed connection has one.
C1_PresenceCount ==
    \A n \in RoomNums :
        /\ Len(EntriesIn(active_users, n)) = Len(presence[n])
        /\ Cardinality(SidsIn(active_users, n)) = Len(EntriesIn(active_users, n))
        /\ SidsIn(active_users, n) = SeqSet(presence[n])
        /\ \A i \in 1..Len(emitted) :
               (emitted[i].event = "user_list_update" /\ emitted[i].to[2] = n)
                   => emitted[i].count = Len(presence[n])

\* a leave or disconnect has just been handled and the room it touched still
\* counts exactly the one connection that stayed
C1_Witness ==
    /\ last.op \in {"leave", "disconnect"}
    /\ \E i \in 1..Len(emitted) :
           /\ emitted[i].event = "user_list_update"
           /\ emitted[i].count = 1
           /\ Len(presence[emitted[i].to[2]]) = 1
           /\ presence[emitted[i].to[2]][1] # last.sid

\* C2: once a disconnect of connection c has been handled, c is a key of no
\* room's registry entry, whatever rooms it had joined.
C2_DisconnectRemovesAll ==
    last.op = "disconnect" =>
        \A i \in 1..Len(active_users) : ~DictHas(active_users[i][2], last.sid)

\* a connection that was present in two rooms has just been disconnected
C2_Witness ==
    /\ last.op = "disconnect"
    /\ Cardinality(EventsWhere(emitted, LAMBDA e : e.what = "disconnected")) = 2
    /\ \E n \in RoomNums : Len(presence[n]) = 1

\* C3: one disconnect of c emits, to every room where c had an entry, exactly
\* one 'disconnected' notification and exactly one presence update, and nothing
\* to any other room; when c had no entry anywhere it emits nothing and the
\* registry stays as it was.
C3_DisconnectEmits ==
    [][last'.op = "disconnect" =>
         LET c == last'.sid
             Had(k) == DictHas(DictGetOr(active_users, k, <<>>), c)
             Notes(k) == EventsWhere(emitted', LAMBDA e : e.event = "notification" /\ e.to = k
                                                          /\ e.what = "disconnected")
             Ups(k) == EventsWhere(emitted', LAMBDA e : e.event = "user_list_update" /\ e.to = k)
             All(k) == EventsWhere(emitted', LAMBDA e : e.to = k)
         IN  /\ \A k \in RoomIds :
                    /\ Cardinality(Notes(k)) = (IF Had(k) THEN 1 ELSE 0)
                    /\ Cardinality(Ups(k)) = (IF Had(k) THEN 1 ELSE 0)
                    /\ Cardinality(All(k)) = (IF Had(k) THEN 2 ELSE 0)
             /\ \A i \in 1..Len(emitted') : emitted'[i].to \in RoomIds
             /\ (\A k \in RoomIds : ~Had(k)) => (emitted' = <<>> /\ active_users' = active_users)
    ]_vars

\* a disconnect has just emitted to two rooms, one notification and one update each
C3_Witness ==
    /\ last.op = "disconnect"
    /\ Len(emitted) = 4
    /\ emitted[1].to # emitted[3].to

\* C4: a message or image event for room r from a connection with no presence
\* entry in r is rejected: no Message row is committed for it, no new_message
\* or notification goes to any room, and the connection stays open.
C4_NotJoinedRejected ==
    (/\ last.op \in {"message", "image"}
     /\ ~HasEntry(active_users, last.room_id[2], last.sid))
        => /\ last.outcome # "ok"
           /\ \A i \in 1..Len(emitted) : ~IsRoomEvent(emitted[i])
           /\ connected[last.sid]

\* C5: when a connection that already has an entry in room r joins r again, the
\* room's entry count is unchanged, every entry keeps its position, the other
\* entries and the other rooms are unchanged, and the connection's entry holds
\* the display name supplied with the new join.
C5_JoinIdempotent ==
    [][(/\ last'.op = "join"
        /\ last'.outcome = "ok"
        /\ HasEntry(active_users, last'.room_id[2], last'.sid))
         => LET c == last'.sid
                n == last'.room_id[2]
                old == EntriesIn(active_users, n)
                new == EntriesIn(active_users', n)
            IN  /\ Len(new) = Len(old)
                /\ \A i \in 1..Len(old) :
                       /\ new[i][1] = old[i][1]
                       /\ old[i][1] # c => new[i] = old[i]
                       /\ old[i][1] = c => new[i][2] = session[c]
                /\ \A m \in RoomNums \ {n} :
                       EntriesIn(active_users', m) = EntriesIn(active_users, m)
                /\ emitted'[2].count = Len(old)
    ]_vars

\* the connection that entered a room first has just joined it again while a
\* second connection is present: it is still first of two
C5_Witness ==
    /\ last.op = "join"
    /\ last.outcome = "ok"
    /\ Len(presence[last.room_id[2]]) = 2
    /\ presence[last.room_id[2]][1] = last.sid
    /\ Len(EntriesIn(active_users, last.room_id[2])) = 2

\* C6: the list a presence update reports for a room, and the registry's list,
\* hold the display names of exactly the connections now present, ordered by
\* the time each current entry was created (the first join since the
\* connection last left or disconnected; a re-entering connection goes last).
C6_PresenceOrder ==
    \A n \in RoomNums :
        /\ SidSeq(active_users, n) = presence[n]
        /\ \A i \in 1..Len(presence[n]) :
               EntriesIn(active_users, n)[i][2] = session[presence[n][i]]
        /\ \A i \in 1..Len(emitted) :
               (emitted[i].event = "user_list_update" /\ emitted[i].to[2] = n)
                   => emitted[i].users = [j \in 1..Len(presence[n]) |-> session[presence[n][j]]]

\* Alice, who had entered before Bob, has just left and the room is told ["Bob"]
C6_Witness ==
    /\ last.op = "leave"
    /\ last.outcome = "ok"
    /\ session[last.sid] = "Alice"
    /\ Len(emitted) = 2
    /\ emitted[2].users = <<"Bob">>

\* C7: a new_message event is only ever emitted for a message whose row has
\* been committed, and a call whose commit failed emits no new_message and no
\* message notification to any room.
C7_PersistBeforeBroadcast ==
    /\ \A i \in 1..Len(emitted) :
           emitted[i].event = "new_message" =>
               \E j \in 1..Len(messages) :
                   /\ messages[j].id = emitted[i].id
                   /\ messages[j].username = emitted[i].username
                   /\ messages[j].content_type = emitted[i].what
                   /\ messages[j].room_id = emitted[i].to[2]
    /\ last.outcome = "PersistenceError" =>
           \A i \in 1..Len(emitted) :
               /\ emitted[i].event # "new_message"
               /\ ~IsRoomEvent(emitted[i])

\* the commit of a text message sent by a joined connection has just failed
C7_Witness ==
    /\ last.op = "message"
    /\ last.outcome = "PersistenceError"
    /\ HasEntry(active_users, last.room_id[2], last.sid)

\* C8: when the insert of a text or image message fails, the sender, and nobody
\* else, receives one private error event.
C8_PersistenceErrorPrivate ==
    last.outcome = "PersistenceError" =>
        /\ Len(emitted) = 1
        /\ emitted[1].event = "error"
        /\ emitted[1].rcpt = {last.sid}

\* C9: an image event whose payload does not decode adds no Message row, sends
\* no new_message and no notification to any room, delivers exactly one error
\* event to the sender alone, and leaves the presence state unchanged.
C9_DecodeFailure ==
    [][(last'.op = "image" /\ last'.outcome = "DecodeError")
         => /\ messages' = messages
            /\ active_users' = active_users
            /\ sio_rooms' = sio_rooms
            /\ Len(emitted') = 1
            /\ emitted'[1].event = "error"
            /\ emitted'[1].to = <<"sid", last'.sid>>
            /\ emitted'[1].rcpt = {last'.sid}
    ]_vars

\* an undecodable image has just come from a connection that shares the room
\* with another one
C9_Witness ==
    /\ last.op = "image"
    /\ last.outcome = "DecodeError"
    /\ Len(presence[last.room_id[2]]) = 2
    /\ last.sid \in SeqSet(presence[last.room_id[2]])

\* C10: when joins of different connections to the same room run concurrently,
\* no presence entry is lost: once no handler is in flight, every connection
\* whose join to room r has completed, and which has not disconnected since,
\* has an entry in the registry of r.
C10_NoLostEntry ==
    AllIdle =>
        \A n \in RoomNums : \A c \in SeqSet(presence[n]) : HasEntry(active_users, n, c)

\* C11: a disconnect is the final word for its connection: once the disconnect
\* of c has run and no handler of c is in flight any more, no room's registry
\* holds an entry for c, however the disconnect interleaved with c's join.
C11_DisconnectFinal ==
    \A c \in Conns :
        (~connected[c] /\ pc[c] = "idle") =>
            \A i \in 1..Len(active_users) : ~DictHas(active_users[i][2], c)

\* C12: a message or image sent for room r by a connection joined to r goes to
\* every connection that has an entry in r: the recipients of new_message and
\* of its notification are exactly the registry's entries of the room,
\* whichever form the room id of the event has.
C12_FanOutMatchesRegistry ==
    (/\ last.op \in {"message", "image"}
     /\ last.outcome = "ok"
     /\ HasEntry(active_users, last.room_id[2], last.sid))
        => /\ Len(emitted) = 2
           /\ \A i \in 1..Len(emitted) :
                  emitted[i].rcpt = SidsIn(active_users, last.room_id[2])

\* C13: a leave for room r from a connection with no entry in r changes no
\* room's entries and is no error: the handler returns normally.
C13_LeaveAbsentNoOp ==
    [][(/\ last'.op = "leave"
        /\ ~HasEntry(active_users, last'.room_id[2], last'.sid))
         => /\ active_users' = active_users
            /\ last'.outcome = "ok"
    ]_vars

\* C14: a join that names a room with no row in the Room table is rejected: the
\* registry never has a key, and never an entry, for an id outside the table.
C14_UnknownRoomRejected ==
    /\ \A i \in 1..Len(active_users) : active_users[i][1][2] \in RoomTable
    /\ (last.op = "join" /\ last.room_id[2] \notin RoomTable) =>
           (last.outcome = "UnknownRoomError" /\ emitted = <<>>)

\* C15: a disconnect sweep in which the emit for one room fails still goes on
\* with the other rooms: when the handler ends, the connection has no entry in
\* any room.
C15_SweepContinues ==
    (last.op = "disconnect" /\ last.outcome = "EmitError") =>
        \A n \in RoomNums : ~HasEntry(active_users, n, last.sid)

\* C16: a handler emits its events to a room in a fixed order: join, leave and
\* disconnect send the 'joined' / 'left' / 'disconnected' notification before
\* that room's presence update, message and image send new_message before the
\* message notification.
C16_EmissionOrder ==
    /\ (last.op \in {"join", "leave"} /\ last.outcome = "ok") =>
           /\ Len(emitted) = 2
           /\ emitted[1].event = "notification"
           /\ emitted[1].what = (IF last.op = "join" THEN "joined" ELSE "left")
           /\ emitted[2].event = "user_list_update"
           /\ emitted[1].to = <<"str", last.room_id[2]>>
           /\ emitted[2].to = emitted[1].to
           /\ emitted[2].rcpt = emitted[1].rcpt
    /\ last.op = "disconnect" =>
           /\ Len(emitted) % 2 = 0
           /\ \A j \in 1..(Len(emitted) \div 2) :
                  /\ emitted[2 * j - 1].event = "notification"
                  /\ emitted[2 * j - 1].what = "disconnected"
                  /\ emitted[2 * j].event = "user_list_update"
                  /\ emitted[2 * j].to = emitted[2 * j - 1].to
    /\ (last.op \in {"message", "image"} /\ last.outcome = "ok") =>
           /\ Len(emitted) = 2
           /\ emitted[1].event = "new_message"
           /\ emitted[2].event = "notification"
           /\ emitted[2].type = "message"
           /\ emitted[2].to = emitted[1].to
           /\ emitted[2].rcpt = emitted[1].rcpt

\* a text message has just gone out to a room with two subscribers
C16_Witness ==
    /\ last.op = "message"
    /\ last.outcome = "ok"
    /\ Len(emitted) = 2
    /\ Cardinality(emitted[1].rcpt) = 2
    /\ emitted[1].what = "text"

\* C17: when joins of different connections to one room run concurrently, every
\* presence update carries a list with count = length, and once no handler is
\* in flight the presence update sent last equals the room's registry content.
C17_LastUpdateCurrent ==
    \A i \in 1..Len(emitted) :
        emitted[i].event = "user_list_update" =>
            /\ emitted[i].count = Len(emitted[i].users)
            /\ AllIdle => emitted[i].users = UsersInRoom(active_users, emitted[i].to)

\* C18: after every handler call the connections subscribed to a room's
\* broadcast channel are exactly those holding an entry in the room's registry;
\* a join from a connection without a display name leaves it in neither.
C18_SubscribedIsPresent ==
    \A n \in RoomNums : Subscribers(sio_rooms, n) = SidsIn(active_users, n)

\* C19: every leave event for room r emits exactly one 'left' notification and
\* exactly one presence update to r, whether or not the connection had an entry
\* in r; when it had none the update carries the unchanged list.
C19_LeaveAlwaysEmits ==
    [][last'.op = "leave" =>
         LET k == <<"str", last'.room_id[2]>> IN
         /\ Len(emitted') = 2
         /\ emitted'[1].event = "notification"
         /\ emitted'[1].what = "left"
         /\ emitted'[1].to = k
         /\ emitted'[2].event = "user_list_update"
         /\ emitted'[2].to = k
         /\ ~HasEntry(active_users, last'.room_id[2], last'.sid) =>
                /\ emitted'[2].users = UsersInRoom(active_users, k)
                /\ emitted'[2].count = Len(UsersInRoom(active_users, k))
    ]_vars

====
